---- MODULE Spec2Model ----
(***************************************************************************)
(* A model of pong (github.com/TechHutTV/pong):                            *)
(*   - scanNetwork, the worker pool of `pong local`      (SpecScan)        *)
(*   - isHostAlive, the 10-port race probe               (SpecAlive)       *)
(*   - RunOut, the continuous TCP probe loop of `pong out` (SpecOut)       *)
(* Each part has its own variables; a specification leaves the variables   *)
(* of the other parts unchanged.                                           *)
(***************************************************************************)
EXTENDS Integers, Sequences, FiniteSets, TLC

(***************************************************************************)
(* Bounds of the model.                                                    *)
(***************************************************************************)
MaxIPs == 3
MaxWorkers == 2
MaxAttempts == 3
MaxDuration == 2
MaxSignals == 2
MaxIfaces == 3
MaxShown == 3
MaxWords == 4

VARIABLES
    \* ---- scanNetwork (cmd/local.go) ----
    ips,        \* the address list handed to scanNetwork
    workers,    \* the value of the -w flag, unvalidated
    scanPc,     \* position of the goroutine that runs scanNetwork
    ipChan,     \* buffered channel of addresses
    chanClosed, \* close(ipChan) has run
    spawned,    \* loop variable i of the "Start workers" loop
    wg,         \* sync.WaitGroup counter
    hosts,      \* the shared []Host
    hostsMu,    \* sync.Mutex: 0 when free, else the worker holding it
    wpc,        \* position of each worker goroutine
    wip,        \* each worker's loop variable ip
    whost,      \* each worker's hostname local
    wold,       \* the slice value append() read, per worker
    result,     \* the []Host scanNetwork returned
    probes,     \* history: number of isHostAlive calls per address
    probeAlive, \* history: addresses whose probe returned true
    taken,      \* history: the workers that received each address
    resolved,   \* history: the hostname resolved for each alive address
    \* ---- isHostAlive (cmd/local.go) ----
    alivePc,     \* position of the goroutine that runs isHostAlive
    launched,    \* port goroutines started so far
    nConnected,  \* port goroutines whose dial succeeded
    nRefused,    \* port goroutines whose dial failed with "refused"
    nOther,      \* port goroutines whose dial failed otherwise
    resultChan,  \* buffered channel of bool, capacity len(ports)
    deadline,    \* the context's deadline has passed
    cancelled,   \* the deferred cancel() has run
    idx,         \* loop variable i of the collecting loop
    successCount,\* the collecting loop's counter
    aliveResult, \* what isHostAlive returned: "none" until it returns
    \* ---- RunOut (the `pong out` command) ----
    count,       \* -c flag
    quiet,       \* -q flag
    showHelp,    \* -h flag
    ipv4Only,    \* -4 flag
    ipv6Only,    \* -6 flag
    nargs,       \* len(fs.Args())
    lookup,      \* how LookupIP ends: "ok", "err" or "empty"
    outPc,       \* position of the goroutine that runs RunOut
    seq,         \* seq
    done,        \* done
    stats,       \* PingStats
    sigChan,     \* number of signals buffered in sigChan
    stdout,      \* lines written to standard output
    exitStatus,  \* process exit status, -1 while running
    printed,     \* history: number of printStats calls
    waits,       \* history: number of inter-probe waits entered
    sigCount,    \* history: signals delivered to the process
    sigAt,       \* history: where the loop was at the first signal
    rtts,        \* history: how many successful attempts took each duration
    \* ---- getLocalNetwork, generateIPRange (cmd/local.go) ----
    ifaceIP,     \* the IPv4 address of the first usable interface
    ones,        \* the prefix length of its mask
    rangePc,     \* position of RunLocal before the scan
    localIP,     \* localIP, as getLocalNetwork returns it
    netIP,       \* ipNet.IP, the masked address
    genIps,      \* the list generateIPRange returned
    \* ---- displayResults (cmd/local.go) ----
    dispHosts,   \* the hosts slice (sorted in place)
    dispLocalIP, \* the localIP argument
    dispPc,      \* position of displayResults
    dispOut,     \* lines written to standard output
    collected,   \* history: the addresses in the order the workers appended
    \* ---- tcpPing (pong out) ----
    pingPc,      \* position of tcpPing
    dialErr,     \* err.Error() of net.DialTimeout as a word sequence; <<>> is nil
    dialDur,     \* time.Since(start)
    connOpen,    \* the connection is open
    pingResult   \* the PingResult returned

scanVars == <<ips, workers, scanPc, ipChan, chanClosed, spawned, wg, hosts,
              hostsMu, wpc, wip, whost, wold, result, probes, probeAlive, taken,
              resolved>>

aliveVars == <<alivePc, launched, nConnected, nRefused, nOther, resultChan,
               deadline, cancelled, idx, successCount, aliveResult>>

outVars == <<count, quiet, showHelp, ipv4Only, ipv6Only, nargs, lookup, outPc,
             seq, done, stats, sigChan, stdout, exitStatus, printed, waits,
             sigCount, sigAt, rtts>>

rangeVars == <<ifaceIP, ones, rangePc, localIP, netIP, genIps>>

dispVars == <<dispHosts, dispLocalIP, dispPc, dispOut, collected>>

pingVars == <<pingPc, dialErr, dialDur, connOpen, pingResult>>

vars == <<scanVars, aliveVars, outVars, rangeVars, dispVars, pingVars>>

\* What a scan step leaves alone.
notScan == <<aliveVars, outVars, rangeVars, dispVars, pingVars>>
\* What a step of isHostAlive leaves alone.
notAlive == <<scanVars, outVars, rangeVars, dispVars, pingVars>>
\* What a step of RunOut leaves alone.
notOut == <<scanVars, aliveVars, rangeVars, dispVars, pingVars>>
\* What a step of the range generator leaves alone.
notRange == <<scanVars, aliveVars, outVars, dispVars, pingVars>>
\* What displayResults leaves alone.
notDisp == <<scanVars, aliveVars, outVars, rangeVars, pingVars>>
\* What tcpPing leaves alone.
notPing == <<scanVars, aliveVars, outVars, rangeVars, dispVars>>

(***************************************************************************)
(* scanNetwork                                                             *)
(***************************************************************************)
Workers == 1..MaxWorkers

\* Values the -w flag can hold: fs.Int accepts any integer.
WorkerCounts == -1..MaxWorkers

\* Addresses are host numbers network+1 .. network+n, as generateIPRange
\* produces them: distinct and ascending.
Addresses == 1..MaxIPs

AddressLists == {[i \in 1..n |-> i] : n \in 1..MaxIPs}

\* What resolveHostname can return: the sentinel or a name.
Hostnames == {"-", "name"}

\* Host{IP, Hostname, Status: "Online"}
Host(ip, hostname) == [IP |-> ip, Hostname |-> hostname, Status |-> "Online"]

\* A Lock() that does not wait for the holder to unlock.
MutexFreeNoWait(mu) == TRUE

\* sync.Mutex: Lock() proceeds only when the mutex is free.
MutexFree(mu) == mu = 0

\* A receive that leaves the element in the channel.
ChanRestKeepsHead(ch) == ch

\* Receiving from a channel removes its head.
ChanRest(ch) == Tail(ch)

\* A queue that is filled but never closed.
LeftOpen == FALSE

\* close(ipChan)
Closed == TRUE

SeqToSet(s) == {s[i] : i \in 1..Len(s)}

\* The scan part before `pong local` runs (used by the other specifications).
ScanIdle ==
    /\ ips = <<>>
    /\ workers = 0
    /\ scanPc = "idle"
    /\ ipChan = <<>>
    /\ chanClosed = FALSE
    /\ spawned = 0
    /\ wg = 0
    /\ hosts = <<>>
    /\ hostsMu = 0
    /\ wpc = [w \in Workers |-> "unborn"]
    /\ wip = [w \in Workers |-> 0]
    /\ whost = [w \in Workers |-> "-"]
    /\ wold = [w \in Workers |-> <<>>]
    /\ result = <<>>
    /\ probes = [a \in Addresses |-> 0]
    /\ probeAlive = {}
    /\ taken = [a \in Addresses |-> {}]
    /\ resolved = [a \in Addresses |-> ""]

\* scanNetwork is entered with the generated list and the -w value.
ScanStart ==
    /\ ips \in AddressLists
    /\ workers \in WorkerCounts
    /\ scanPc = "fill"
    /\ ipChan = <<>>
    /\ chanClosed = FALSE
    /\ spawned = 0
    /\ wg = 0
    /\ hosts = <<>>
    /\ hostsMu = 0
    /\ wpc = [w \in Workers |-> "unborn"]
    /\ wip = [w \in Workers |-> 0]
    /\ whost = [w \in Workers |-> "-"]
    /\ wold = [w \in Workers |-> <<>>]
    /\ result = <<>>
    /\ probes = [a \in Addresses |-> 0]
    /\ probeAlive = {}
    /\ taken = [a \in Addresses |-> {}]
    /\ resolved = [a \in Addresses |-> ""]

\* ipChan := make(chan string, len(ips)); send every ip; close(ipChan)
FillQueue ==
    /\ scanPc = "fill"
    /\ ipChan' = ips
    /\ chanClosed' = Closed
    /\ scanPc' = "spawn"
    /\ UNCHANGED <<ips, workers, spawned, wg, hosts, hostsMu, wpc, wip, whost,
                   wold, result, probes, probeAlive, taken, resolved, notScan>>

\* One iteration of  for i := 0; i < workers; i++ { wg.Add(1); go func(){..}() }
StartWorker ==
    /\ scanPc = "spawn"
    /\ spawned < workers
    /\ wg' = wg + 1
    /\ wpc' = [wpc EXCEPT ![spawned + 1] = "range"]
    /\ spawned' = spawned + 1
    /\ UNCHANGED <<ips, workers, scanPc, ipChan, chanClosed, hosts, hostsMu,
                   wip, whost, wold, result, probes, probeAlive, taken, resolved, notScan>>

\* The loop condition i < workers fails: go on to wg.Wait()
SpawnDone ==
    /\ scanPc = "spawn"
    /\ ~(spawned < workers)
    /\ scanPc' = "wait"
    /\ UNCHANGED <<ips, workers, ipChan, chanClosed, spawned, wg, hosts,
                   hostsMu, wpc, wip, whost, wold, result, probes, probeAlive,
                   taken, resolved, notScan>>

\* wg.Wait() returns when the counter is zero; return hosts
WaitReturn ==
    /\ scanPc = "wait"
    /\ wg = 0
    /\ result' = hosts
    /\ scanPc' = "returned"
    /\ UNCHANGED <<ips, workers, ipChan, chanClosed, spawned, wg, hosts,
                   hostsMu, wpc, wip, whost, wold, probes, probeAlive, taken, resolved, notScan>>

\* for ip := range ipChan: receive the next address
Receive(w) ==
    /\ wpc[w] = "range"
    /\ ipChan # <<>>
    /\ wip' = [wip EXCEPT ![w] = Head(ipChan)]
    /\ taken' = [taken EXCEPT ![Head(ipChan)] = @ \cup {w}]
    /\ ipChan' = ChanRest(ipChan)
    /\ wpc' = [wpc EXCEPT ![w] = "probe"]
    /\ UNCHANGED <<ips, workers, scanPc, chanClosed, spawned, wg, hosts,
                   hostsMu, whost, wold, result, probes, probeAlive, resolved, notScan>>

\* for ip := range ipChan ends on the closed, drained channel; defer wg.Done()
WorkerExit(w) ==
    /\ wpc[w] = "range"
    /\ ipChan = <<>>
    /\ chanClosed
    /\ wg' = wg - 1
    /\ wpc' = [wpc EXCEPT ![w] = "exited"]
    /\ UNCHANGED <<ips, workers, scanPc, ipChan, chanClosed, spawned, hosts,
                   hostsMu, wip, whost, wold, result, probes, probeAlive, taken, resolved, notScan>>

\* if isHostAlive(ip, timeout): the network decides the answer
Probe(w) ==
    /\ wpc[w] = "probe"
    /\ probes' = [probes EXCEPT ![wip[w]] = @ + 1]
    /\ \E alive \in BOOLEAN :
        IF alive
        THEN /\ probeAlive' = probeAlive \cup {wip[w]}
             /\ wpc' = [wpc EXCEPT ![w] = "resolve"]
        ELSE /\ probeAlive' = probeAlive
             /\ wpc' = [wpc EXCEPT ![w] = "range"]
    /\ UNCHANGED <<ips, workers, scanPc, ipChan, chanClosed, spawned, wg,
                   hosts, hostsMu, wip, whost, wold, result, taken, resolved, notScan>>

\* hostname := resolveHostname(ip, timeout)
Resolve(w) ==
    /\ wpc[w] = "resolve"
    /\ \E h \in Hostnames :
        /\ whost' = [whost EXCEPT ![w] = h]
        /\ resolved' = [resolved EXCEPT ![wip[w]] = h]
    /\ wpc' = [wpc EXCEPT ![w] = "lock"]
    /\ UNCHANGED <<ips, workers, scanPc, ipChan, chanClosed, spawned, wg,
                   hosts, hostsMu, wip, wold, result, probes, probeAlive, taken,
                   notScan>>

\* hostsMu.Lock()
Lock(w) ==
    /\ wpc[w] = "lock"
    /\ MutexFree(hostsMu)
    /\ hostsMu' = w
    /\ wpc' = [wpc EXCEPT ![w] = "append"]
    /\ UNCHANGED <<ips, workers, scanPc, ipChan, chanClosed, spawned, wg,
                   hosts, wip, whost, wold, result, probes, probeAlive, taken, resolved, notScan>>

\* append(hosts, Host{...}) reads the slice ...
AppendRead(w) ==
    /\ wpc[w] = "append"
    /\ wold' = [wold EXCEPT ![w] = hosts]
    /\ wpc' = [wpc EXCEPT ![w] = "store"]
    /\ UNCHANGED <<ips, workers, scanPc, ipChan, chanClosed, spawned, wg,
                   hosts, hostsMu, wip, whost, result, probes, probeAlive, taken, resolved, notScan>>

\* ... and hosts = ... stores the extended slice
AppendStore(w) ==
    /\ wpc[w] = "store"
    /\ hosts' = Append(wold[w], Host(wip[w], whost[w]))
    /\ wold' = [wold EXCEPT ![w] = <<>>]
    /\ wpc' = [wpc EXCEPT ![w] = "unlock"]
    /\ UNCHANGED <<ips, workers, scanPc, ipChan, chanClosed, spawned, wg,
                   hostsMu, wip, whost, result, probes, probeAlive, taken, resolved, notScan>>

\* hostsMu.Unlock()
Unlock(w) ==
    /\ wpc[w] = "unlock"
    /\ hostsMu' = 0
    /\ wpc' = [wpc EXCEPT ![w] = "range"]
    /\ UNCHANGED <<ips, workers, scanPc, ipChan, chanClosed, spawned, wg,
                   hosts, wip, whost, wold, result, probes, probeAlive, taken, resolved, notScan>>

\* The steps of the goroutine that called scanNetwork.
ScanMainStep ==
    \/ FillQueue
    \/ StartWorker
    \/ SpawnDone
    \/ WaitReturn

\* The steps of worker goroutine w.
WorkerStep(w) ==
    \/ Receive(w)
    \/ WorkerExit(w)
    \/ Probe(w)
    \/ Resolve(w)
    \/ Lock(w)
    \/ AppendRead(w)
    \/ AppendStore(w)
    \/ Unlock(w)

ScanNext ==
    \/ FillQueue
    \/ StartWorker
    \/ SpawnDone
    \/ WaitReturn
    \/ \E w \in Workers : Receive(w)
    \/ \E w \in Workers : WorkerExit(w)
    \/ \E w \in Workers : Probe(w)
    \/ \E w \in Workers : Resolve(w)
    \/ \E w \in Workers : Lock(w)
    \/ \E w \in Workers : AppendRead(w)
    \/ \E w \in Workers : AppendStore(w)
    \/ \E w \in Workers : Unlock(w)


(***************************************************************************)
(* isHostAlive                                                             *)
(***************************************************************************)
\* len(ports)
NumPorts == 10

\* How one DialContext can end.
DialOutcomes == {"connected", "refused", "other"}

\* Every dial error is taken for a refusal.
PortResultAnyError(outcome) == TRUE

\* What a port goroutine sends: true when err == nil or the error text
\* contains "refused", false otherwise.
PortResult(outcome) == outcome \in {"connected", "refused"}

\* A collecting loop that stops one result short.
CollectBoundShort == NumPorts - 1

\* The bound of the collecting loop: i < len(ports)
CollectBound == NumPorts

\* A result channel with room for half of the senders only.
ResultChanCapHalf(n) == n \div 2

\* make(chan bool, len(ports)): the capacity of resultChan
ResultChanCap(n) == n

\* ctx.Done() is closed once the deadline passes or cancel() runs.
CtxDone == deadline \/ cancelled

AliveIdle ==
    /\ alivePc = "idle"
    /\ launched = 0
    /\ nConnected = 0
    /\ nRefused = 0
    /\ nOther = 0
    /\ resultChan = <<>>
    /\ deadline = FALSE
    /\ cancelled = FALSE
    /\ idx = 0
    /\ successCount = 0
    /\ aliveResult = "none"

\* ctx, cancel := context.WithTimeout(...); resultChan := make(chan bool, 10)
AliveInit ==
    /\ alivePc = "launch"
    /\ launched = 0
    /\ nConnected = 0
    /\ nRefused = 0
    /\ nOther = 0
    /\ resultChan = <<>>
    /\ deadline = FALSE
    /\ cancelled = FALSE
    /\ idx = 0
    /\ successCount = 0
    /\ aliveResult = "none"

\* Port goroutines that have not yet sent their result.
Dialing == launched - (nConnected + nRefused + nOther)

\* for _, port := range ports { go func(p string) {...}(port) }
Launch ==
    /\ alivePc = "launch"
    /\ launched < NumPorts
    /\ launched' = launched + 1
    /\ UNCHANGED <<alivePc, nConnected, nRefused, nOther, resultChan, deadline,
                   cancelled, idx, successCount, aliveResult, notAlive>>

\* The range over ports is exhausted: go on to the collecting loop.
LaunchDone ==
    /\ alivePc = "launch"
    /\ launched = NumPorts
    /\ alivePc' = "collect"
    /\ UNCHANGED <<launched, nConnected, nRefused, nOther, resultChan, deadline,
                   cancelled, idx, successCount, aliveResult, notAlive>>

\* The context's timer fires; cancel() stops the timer.
Deadline ==
    /\ alivePc # "idle"
    /\ ~deadline
    /\ ~cancelled
    /\ deadline' = TRUE
    /\ UNCHANGED <<alivePc, launched, nConnected, nRefused, nOther, resultChan,
                   cancelled, idx, successCount, aliveResult, notAlive>>

\* One port goroutine: DialContext ends and the result is sent on the
\* buffered channel; the send waits while the buffer is full.  Once ctx is
\* done DialContext returns the context's error, which is no refusal.
PortReport ==
    /\ Dialing > 0
    /\ Len(resultChan) < ResultChanCap(NumPorts)
    /\ \E outcome \in DialOutcomes :
        /\ CtxDone => outcome = "other"
        /\ nConnected' = nConnected + (IF outcome = "connected" THEN 1 ELSE 0)
        /\ nRefused' = nRefused + (IF outcome = "refused" THEN 1 ELSE 0)
        /\ nOther' = nOther + (IF outcome = "other" THEN 1 ELSE 0)
        /\ resultChan' = Append(resultChan, PortResult(outcome))
    /\ UNCHANGED <<alivePc, launched, deadline, cancelled, idx, successCount,
                   aliveResult, notAlive>>

\* select case result := <-resultChan, with result true: return true
CollectTrue ==
    /\ alivePc = "collect"
    /\ idx < CollectBound
    /\ resultChan # <<>>
    /\ Head(resultChan)
    /\ resultChan' = Tail(resultChan)
    /\ aliveResult' = "alive"
    /\ cancelled' = TRUE
    /\ alivePc' = "returned"
    /\ UNCHANGED <<launched, nConnected, nRefused, nOther, deadline, idx,
                   successCount, notAlive>>

\* select case result := <-resultChan, with result false: successCount++
CollectFalse ==
    /\ alivePc = "collect"
    /\ idx < CollectBound
    /\ resultChan # <<>>
    /\ ~Head(resultChan)
    /\ resultChan' = Tail(resultChan)
    /\ successCount' = successCount + 1
    /\ idx' = idx + 1
    /\ UNCHANGED <<alivePc, launched, nConnected, nRefused, nOther, deadline,
                   cancelled, aliveResult, notAlive>>

\* select case <-ctx.Done(): return false.  When a result is ready too,
\* select takes either case.
CollectTimeout ==
    /\ alivePc = "collect"
    /\ idx < CollectBound
    /\ CtxDone
    /\ aliveResult' = "dead"
    /\ cancelled' = TRUE
    /\ alivePc' = "returned"
    /\ UNCHANGED <<launched, nConnected, nRefused, nOther, resultChan, deadline,
                   idx, successCount, notAlive>>

\* The collecting loop ran len(ports) times: return false
CollectExhausted ==
    /\ alivePc = "collect"
    /\ ~(idx < CollectBound)
    /\ aliveResult' = "dead"
    /\ cancelled' = TRUE
    /\ alivePc' = "returned"
    /\ UNCHANGED <<launched, nConnected, nRefused, nOther, resultChan, deadline,
                   idx, successCount, notAlive>>

\* The steps of the goroutine that called isHostAlive.
AliveCallerStep ==
    \/ Launch
    \/ LaunchDone
    \/ CollectTrue
    \/ CollectFalse
    \/ CollectTimeout
    \/ CollectExhausted

AliveNext ==
    \/ Launch
    \/ LaunchDone
    \/ Deadline
    \/ PortReport
    \/ CollectTrue
    \/ CollectFalse
    \/ CollectTimeout
    \/ CollectExhausted

(***************************************************************************)
(* RunOut: the continuous probe loop                                       *)
(***************************************************************************)
\* Values of the -c flag: fs.Int accepts any integer, 0 means unlimited.
Counts == -1..MaxAttempts

\* Connect times of successful attempts.
Durations == 1..MaxDuration

\* time.Duration(1<<63 - 1), the largest Duration; the model holds it as the
\* largest integer TLC represents.  The code only compares durations with it.
MaxDurationValue == 2147483647

\* make(chan os.Signal, 1)
SigChanCap == 1

\* PingStats{StartTime: time.Now(), MinTime: time.Duration(1<<63 - 1)}
InitStats ==
    [Sent |-> 0, Received |-> 0, Lost |-> 0, MinTime |-> MaxDurationValue,
     MaxTime |-> 0, TotalTime |-> 0]

\* An attempt that bumps Sent but forgets Lost on failure.
CountAttemptNoLost(st, success, d) ==
    IF success
    THEN [st EXCEPT !.Sent = @ + 1, !.Received = @ + 1, !.TotalTime = @ + d,
                    !.MinTime = IF d < @ THEN d ELSE @,
                    !.MaxTime = IF d > @ THEN d ELSE @]
    ELSE [st EXCEPT !.Sent = @ + 1]

\* An attempt that never lowers MinTime.
CountAttemptNoMin(st, success, d) ==
    IF success
    THEN [st EXCEPT !.Sent = @ + 1, !.Received = @ + 1, !.TotalTime = @ + d,
                    !.MaxTime = IF d > @ THEN d ELSE @]
    ELSE [st EXCEPT !.Sent = @ + 1, !.Lost = @ + 1]

\* stats.Sent++, then Received/TotalTime/MinTime/MaxTime on success, Lost on
\* failure.
CountAttempt(st, success, d) ==
    IF success
    THEN [st EXCEPT !.Sent = @ + 1, !.Received = @ + 1, !.TotalTime = @ + d,
                    !.MinTime = IF d < @ THEN d ELSE @,
                    !.MaxTime = IF d > @ THEN d ELSE @]
    ELSE [st EXCEPT !.Sent = @ + 1, !.Lost = @ + 1]

\* A count check that is off by one.
CountReachedLate(c, n) == c > 0 /\ n > c

\* if *count > 0 && seq >= *count
CountReached(c, n) == c > 0 /\ n >= c

\* A select whose default case is taken although a signal is pending.
DefaultTakenAlways(ch) == TRUE

\* select { case <-sigChan: ...; default: }: default runs only when no
\* signal is buffered.
DefaultTaken(ch) == ch = 0

\* A Notify on an unbuffered channel: the signal is dropped, nobody receives.
NotifyDropped(ch) == ch

\* signal.Notify sends without blocking: the signal is buffered when there
\* is room and dropped otherwise.
Notify(ch) == IF ch < SigChanCap THEN ch + 1 ELSE ch

\* A loop that returns without the report once done is set.
AfterLoopCondNoStats(d) == IF d THEN "exit" ELSE "select"

\* for !done { ... }  printStats(...)
AfterLoopCond(d) == IF d THEN "stats" ELSE "select"

\* float64(lost) / float64(sent) * 100 as "%.1f" prints it, in tenths of a
\* percent (rounded to nearest, ties to even); sent is not 0.
LossRatioTenths(lost, sent) ==
    LET q == (lost * 1000) \div sent
        r == (lost * 1000) % sent
    IN  IF 2 * r > sent \/ (2 * r = sent /\ q % 2 = 1) THEN q + 1 ELSE q

\* The percentage computed without the Sent > 0 test: the floating-point
\* quotient 0/0 is NaN, printed as "NaN" and held here as -1.
LossTenthsUnguarded(st) ==
    IF st.Sent # 0 THEN LossRatioTenths(st.Lost, st.Sent) ELSE -1

\* lossPercent := float64(0); if stats.Sent > 0 { lossPercent = ... }
LossTenths(st) ==
    IF st.Sent > 0 THEN LossRatioTenths(st.Lost, st.Sent) ELSE 0

ConnectedLine(n, d) == [kind |-> "connected", seq |-> n, time |-> d]
FailedLine(n) == [kind |-> "failed", seq |-> n, time |-> 0]
BlankLine == [kind |-> "blank", seq |-> 0, time |-> 0]
HeaderLine == [kind |-> "header", seq |-> 0, time |-> 0]
UsageLine == [kind |-> "usage", seq |-> 0, time |-> 0]

\* "%d packets transmitted, %d received, %.1f%% packet loss, time %.0fms"
SummaryLine(st) ==
    [kind |-> "summary", sent |-> st.Sent, received |-> st.Received,
     loss |-> LossTenths(st)]

\* "rtt min/avg/max = ..." with avgTime := stats.TotalTime / Received
RttLine(st) ==
    [kind |-> "rtt", min |-> st.MinTime, avg |-> st.TotalTime \div st.Received,
     max |-> st.MaxTime]

\* A report that never prints the round-trip line.
RttPrintedNever(st) == FALSE

\* if stats.Received > 0 { ... fmt.Printf("rtt min/avg/max ...") }
RttPrinted(st) == st.Received > 0

\* The lines printStats writes.
StatsLines(st) ==
    <<BlankLine, SummaryLine(st)>> \o
    (IF RttPrinted(st) THEN <<RttLine(st)>> ELSE <<>>)

OutIdle ==
    /\ count = 0
    /\ quiet = FALSE
    /\ showHelp = FALSE
    /\ ipv4Only = FALSE
    /\ ipv6Only = FALSE
    /\ nargs = 0
    /\ lookup = "ok"
    /\ outPc = "idle"
    /\ seq = 0
    /\ done = FALSE
    /\ stats = InitStats
    /\ sigChan = 0
    /\ stdout = <<>>
    /\ exitStatus = -1
    /\ printed = 0
    /\ waits = 0
    /\ sigCount = 0
    /\ sigAt = [pc |-> "none", seq |-> 0, stats |-> InitStats, waits |-> 0]
    /\ rtts = [d \in Durations |-> 0]

\* RunOut is entered with the parsed flags.
OutInit ==
    /\ count \in Counts
    /\ quiet \in BOOLEAN
    /\ showHelp \in BOOLEAN
    /\ ipv4Only \in BOOLEAN
    /\ ipv6Only \in BOOLEAN
    /\ nargs \in 0..1
    /\ lookup \in {"ok", "err", "empty"}
    /\ outPc = "parsed"
    /\ seq = 0
    /\ done = FALSE
    /\ stats = InitStats
    /\ sigChan = 0
    /\ stdout = <<>>
    /\ exitStatus = -1
    /\ printed = 0
    /\ waits = 0
    /\ sigCount = 0
    /\ sigAt = [pc |-> "none", seq |-> 0, stats |-> InitStats, waits |-> 0]
    /\ rtts = [d \in Durations |-> 0]

\* if *showHelp { fs.Usage(); return }
ShowUsage ==
    /\ outPc = "parsed"
    /\ showHelp
    /\ stdout' = Append(stdout, UsageLine)
    /\ exitStatus' = 0
    /\ outPc' = "exit"
    /\ UNCHANGED <<count, quiet, showHelp, ipv4Only, ipv6Only, nargs, lookup,
                   seq, done, stats, sigChan, printed, waits, sigCount, sigAt,
                   rtts, notOut>>

\* The three configuration and resolution errors: message on stderr,
\* os.Exit(1).
ConfigError ==
    /\ outPc = "parsed"
    /\ ~showHelp
    /\ \/ ipv4Only /\ ipv6Only
       \/ nargs < 1
       \/ lookup = "err"
       \/ lookup = "empty"
    /\ exitStatus' = 1
    /\ outPc' = "exit"
    /\ UNCHANGED <<count, quiet, showHelp, ipv4Only, ipv6Only, nargs, lookup,
                   seq, done, stats, sigChan, stdout, printed, waits, sigCount,
                   sigAt, rtts,
                   notOut>>

\* Print the PONG header, signal.Notify(sigChan, ...), stats := PingStats{..},
\* seq := 0, done := false
StartLoop ==
    /\ outPc = "parsed"
    /\ ~showHelp
    /\ ~(ipv4Only /\ ipv6Only)
    /\ ~(nargs < 1)
    /\ lookup = "ok"
    /\ stdout' = Append(stdout, HeaderLine)
    /\ stats' = InitStats
    /\ seq' = 0
    /\ done' = FALSE
    /\ outPc' = "loop"
    /\ UNCHANGED <<count, quiet, showHelp, ipv4Only, ipv6Only, nargs, lookup,
                   sigChan, exitStatus, printed, waits, sigCount, sigAt, rtts,
                   notOut>>

\* The loop has been entered (signal.Notify has run) and the process lives.
InLoop == outPc \in {"loop", "select", "ping", "wait", "stats"}

\* for !done
LoopCond ==
    /\ outPc = "loop"
    /\ outPc' = AfterLoopCond(done)
    /\ UNCHANGED <<count, quiet, showHelp, ipv4Only, ipv6Only, nargs, lookup,
                   seq, done, stats, sigChan, stdout, exitStatus, printed,
                   waits, sigCount, sigAt, rtts,
                   notOut>>

\* select { case <-sigChan: done = true; fmt.Println(); continue
SelectSignal ==
    /\ outPc = "select"
    /\ sigChan > 0
    /\ sigChan' = sigChan - 1
    /\ done' = TRUE
    /\ stdout' = Append(stdout, BlankLine)
    /\ outPc' = "loop"
    /\ UNCHANGED <<count, quiet, showHelp, ipv4Only, ipv6Only, nargs, lookup,
                   seq, stats, exitStatus, printed, waits, sigCount, sigAt,
                   rtts, notOut>>

\* default: }  seq++; tcpPing(...) starts
SelectDefault ==
    /\ outPc = "select"
    /\ DefaultTaken(sigChan)
    /\ seq < MaxAttempts
    /\ seq' = seq + 1
    /\ outPc' = "ping"
    /\ UNCHANGED <<count, quiet, showHelp, ipv4Only, ipv6Only, nargs, lookup,
                   done, stats, sigChan, stdout, exitStatus, printed, waits,
                   sigCount, sigAt, rtts,
                   notOut>>

\* tcpPing returns; the attempt is counted and its line printed; then the
\* count check, which either sets done and continues or goes on to the wait.
PingDone ==
    /\ outPc = "ping"
    /\ \E success \in BOOLEAN : \E d \in Durations :
        /\ ~success => d = 1
        /\ stats' = CountAttempt(stats, success, d)
        /\ rtts' = IF success THEN [rtts EXCEPT ![d] = @ + 1] ELSE rtts
        /\ stdout' = IF quiet THEN stdout
                     ELSE IF success THEN Append(stdout, ConnectedLine(seq, d))
                     ELSE Append(stdout, FailedLine(seq))
    /\ IF CountReached(count, seq)
       THEN /\ done' = TRUE
            /\ outPc' = "loop"
            /\ waits' = waits
       ELSE /\ done' = done
            /\ outPc' = "wait"
            /\ waits' = waits + 1
    /\ UNCHANGED <<count, quiet, showHelp, ipv4Only, ipv6Only, nargs, lookup,
                   seq, sigChan, exitStatus, printed, sigCount, sigAt, notOut>>

\* select { case <-sigChan: done = true; fmt.Println()
WaitSignal ==
    /\ outPc = "wait"
    /\ sigChan > 0
    /\ sigChan' = sigChan - 1
    /\ done' = TRUE
    /\ stdout' = Append(stdout, BlankLine)
    /\ outPc' = "loop"
    /\ UNCHANGED <<count, quiet, showHelp, ipv4Only, ipv6Only, nargs, lookup,
                   seq, stats, exitStatus, printed, waits, sigCount, sigAt,
                   rtts, notOut>>

\* case <-time.After(intervalDuration): }  When a signal is ready too,
\* select takes either case.
WaitTimer ==
    /\ outPc = "wait"
    /\ outPc' = "loop"
    /\ UNCHANGED <<count, quiet, showHelp, ipv4Only, ipv6Only, nargs, lookup,
                   seq, done, stats, sigChan, stdout, exitStatus, printed,
                   waits, sigCount, sigAt, rtts,
                   notOut>>

\* printStats(displayHost, *port, stats); RunOut returns and main with it.
PrintStats ==
    /\ outPc = "stats"
    /\ stdout' = stdout \o StatsLines(stats)
    /\ printed' = printed + 1
    /\ exitStatus' = 0
    /\ outPc' = "exit"
    /\ UNCHANGED <<count, quiet, showHelp, ipv4Only, ipv6Only, nargs, lookup,
                   seq, done, stats, sigChan, waits, sigCount, sigAt, rtts,
                   notOut>>

\* The user or the system sends SIGINT/SIGTERM while the loop runs.
Signal ==
    /\ InLoop
    /\ sigCount < MaxSignals
    /\ sigChan' = Notify(sigChan)
    /\ sigCount' = sigCount + 1
    /\ sigAt' = IF sigCount = 0
                THEN [pc |-> outPc, seq |-> seq, stats |-> stats,
                      waits |-> waits]
                ELSE sigAt
    /\ UNCHANGED <<count, quiet, showHelp, ipv4Only, ipv6Only, nargs, lookup,
                   outPc, seq, done, stats, stdout, exitStatus, printed, waits,
                   rtts, notOut>>

\* The steps of the goroutine that runs RunOut.
OutStep ==
    \/ ShowUsage
    \/ ConfigError
    \/ StartLoop
    \/ LoopCond
    \/ SelectSignal
    \/ SelectDefault
    \/ PingDone
    \/ WaitSignal
    \/ WaitTimer
    \/ PrintStats

OutNext ==
    \/ ShowUsage
    \/ ConfigError
    \/ StartLoop
    \/ LoopCond
    \/ SelectSignal
    \/ SelectDefault
    \/ PingDone
    \/ WaitSignal
    \/ WaitTimer
    \/ PrintStats
    \/ Signal

(***************************************************************************)
(* getLocalNetwork and generateIPRange                                     *)
(***************************************************************************)
\* An IPv4 address is its four octets; a uint32 is its two 16-bit halves
\* <<high, low>>, so that no value leaves the range of the model's integers.
\* The dotted-quad string "%d.%d.%d.%d" is held as the four numbers printed.

\* if hostBits < 4
SmallSubnetBits == 4
\* hostBits = 8 // Assume /24
AssumedHostBits == 8
\* if hostBits > 16 { hostBits = 16 }
MaxHostBits == 16
\* numHosts = 254 // Fallback to /24
FallbackHosts == 254

Half == 65536

\* Interface addresses the model draws from.
IfaceSamples ==
    << <<192, 168, 1, 10>>, <<10, 200, 77, 129>>, <<172, 16, 255, 254>>,
       <<100, 64, 0, 0>> >>

Interfaces ==
    {IfaceSamples[k] : k \in 1..(IF MaxIfaces < Len(IfaceSamples)
                                 THEN MaxIfaces ELSE Len(IfaceSamples))}

PrefixLengths == 0..32

\* The number of mask bits that fall into octet k (1..4) of a /n mask.
MaskBits(n, k) ==
    IF n >= 8 * k THEN 8 ELSE IF n <= 8 * (k - 1) THEN 0 ELSE n - 8 * (k - 1)

\* ip4.Mask(ipNet.Mask): each octet ANDed with the mask's octet.
MaskIP(ip, n) ==
    [k \in 1..4 |-> (ip[k] \div (2 ^ (8 - MaskBits(n, k)))) *
                    (2 ^ (8 - MaskBits(n, k)))]

\* uint32(ip[0])<<24 | uint32(ip[1])<<16 | uint32(ip[2])<<8 | uint32(ip[3])
ipToUint32(ip) == <<ip[1] * 256 + ip[2], ip[3] * 256 + ip[4]>>

\* fmt.Sprintf("%d.%d.%d.%d", n>>24, (n>>16)&0xFF, (n>>8)&0xFF, n&0xFF)
uint32ToIP(n) == <<n[1] \div 256, n[1] % 256, n[2] \div 256, n[2] % 256>>

\* start + uint32(i), modulo 2^32
AddU32(n, i) ==
    LET low == n[2] + (i % Half)
        high == n[1] + (i \div Half) + (low \div Half)
    IN  <<high % Half, low % Half>>

\* ones, bits := mask.Size(); hostBits := bits - ones
HostBitsOf(n) == 32 - n

\* A generator that keeps the real prefix of a small subnet.
IsSmallSubnetNever(hostBits) == FALSE

\* if hostBits < 4
IsSmallSubnet(hostBits) == hostBits < SmallSubnetBits

\* A generator without the /16 limit.
ClampHostBitsNoLimit(hostBits) == hostBits

\* A /16 limit that is one bit late.
ClampHostBitsLate(hostBits) ==
    IF hostBits > MaxHostBits + 1 THEN MaxHostBits + 1 ELSE hostBits

\* if hostBits > 16 { hostBits = 16 }
ClampHostBits(hostBits) ==
    IF hostBits > MaxHostBits THEN MaxHostBits ELSE hostBits

\* hostBits after the small-subnet substitution and the /16 limit.
EffectiveHostBits(hostBits) ==
    ClampHostBits(IF IsSmallSubnet(hostBits) THEN AssumedHostBits ELSE hostBits)

\* ip = net.IPv4(ip[0], ip[1], ip[2], 0).To4() for a small subnet
RangeBase(ip, hostBits) ==
    IF IsSmallSubnet(hostBits) THEN <<ip[1], ip[2], ip[3], 0>> ELSE ip

\* A host count that forgets to leave out network and broadcast.
NumHostsAll(hostBits) == 2 ^ EffectiveHostBits(hostBits)

\* numHosts := (1 << hostBits) - 2; if numHosts <= 0 { numHosts = 254 }
NumHosts(hostBits) ==
    LET n == (2 ^ EffectiveHostBits(hostBits)) - 2
    IN  IF n <= 0 THEN FallbackHosts ELSE n

\* for i := 1; i <= numHosts; i++ { ips = append(ips, uint32ToIP(start+uint32(i))) }
generateIPRange(ip, n) ==
    LET hostBits == HostBitsOf(n)
        start == ipToUint32(RangeBase(ip, hostBits))
    IN  [i \in 1..NumHosts(hostBits) |-> uint32ToIP(AddU32(start, i))]

RangeIdle ==
    /\ ifaceIP = <<0, 0, 0, 0>>
    /\ ones = 0
    /\ rangePc = "idle"
    /\ localIP = <<>>
    /\ netIP = <<>>
    /\ genIps = <<>>

\* RunLocal on a machine whose first usable interface has this address/mask.
RangeInit ==
    /\ ifaceIP \in Interfaces
    /\ ones \in PrefixLengths
    /\ rangePc = "start"
    /\ localIP = <<>>
    /\ netIP = <<>>
    /\ genIps = <<>>

\* return ip4.String(), &net.IPNet{IP: ip4.Mask(ipNet.Mask), Mask: ipNet.Mask}
GetLocalNetwork ==
    /\ rangePc = "start"
    /\ localIP' = ifaceIP
    /\ netIP' = MaskIP(ifaceIP, ones)
    /\ rangePc' = "network"
    /\ UNCHANGED <<ifaceIP, ones, genIps, notRange>>

\* ips := generateIPRange(ipNet)
GenerateRange ==
    /\ rangePc = "network"
    /\ genIps' = generateIPRange(netIP, ones)
    /\ rangePc' = "generated"
    /\ UNCHANGED <<ifaceIP, ones, localIP, netIP, notRange>>

RangeNext ==
    \/ GetLocalNetwork
    \/ GenerateRange

(***************************************************************************)
(* displayResults                                                          *)
(***************************************************************************)
\* A string is the sequence of its character codes.
DotChar == 46
ZeroChar == 48

\* hostnameWidth := 30
HostnameWidth == 30

\* "%d" of one octet
Decimal(n) ==
    IF n < 10 THEN <<ZeroChar + n>>
    ELSE IF n < 100 THEN <<ZeroChar + (n \div 10), ZeroChar + (n % 10)>>
    ELSE <<ZeroChar + (n \div 100), ZeroChar + ((n \div 10) % 10),
           ZeroChar + (n % 10)>>

\* The string "%d.%d.%d.%d" that uint32ToIP formats from its four numbers.
DottedQuad(o) ==
    Decimal(o[1]) \o <<DotChar>> \o Decimal(o[2]) \o <<DotChar>> \o
    Decimal(o[3]) \o <<DotChar>> \o Decimal(o[4])

RECURSIVE ParseFrom(_, _, _, _)
\* Reads decimal octets separated by dots, from position i on.
ParseFrom(str, i, cur, acc) ==
    IF i > Len(str) THEN Append(acc, cur)
    ELSE IF str[i] = DotChar THEN ParseFrom(str, i + 1, 0, Append(acc, cur))
    ELSE ParseFrom(str, i + 1, cur * 10 + (str[i] - ZeroChar), acc)

\* net.ParseIP of a dotted quad
ParseIP(str) == ParseFrom(str, 1, 0, <<>>)

\* a < b on uint32
LessU32(a, b) == a[1] < b[1] \/ (a[1] = b[1] /\ a[2] < b[2])

RECURSIVE LessString(_, _)
\* a < b on strings: byte-wise, a proper prefix being smaller.
LessString(a, b) ==
    IF b = <<>> THEN FALSE
    ELSE IF a = <<>> THEN TRUE
    ELSE IF Head(a) # Head(b) THEN Head(a) < Head(b)
    ELSE LessString(Tail(a), Tail(b))

\* A comparison of the address strings themselves.
HostLessLexical(a, b) == LessString(a.IP, b.IP)

\* ipToUint32(net.ParseIP(hosts[i].IP)) < ipToUint32(net.ParseIP(hosts[j].IP))
HostLess(a, b) == LessU32(ipToUint32(ParseIP(a.IP)), ipToUint32(ParseIP(b.IP)))

RECURSIVE InsertHost(_, _)
InsertHost(sorted, h) ==
    IF sorted = <<>> THEN <<h>>
    ELSE IF HostLess(h, Head(sorted)) THEN <<h>> \o sorted
    ELSE <<Head(sorted)>> \o InsertHost(Tail(sorted), h)

RECURSIVE SortHosts(_)
\* sort.Slice(hosts, less): the records ordered by less.
SortHosts(hs) ==
    IF hs = <<>> THEN <<>>
    ELSE InsertHost(SortHosts(SubSeq(hs, 1, Len(hs) - 1)), hs[Len(hs)])

\* hostname[:hostnameWidth-3] + "..." when len(hostname) > hostnameWidth
Truncate(h) ==
    IF Len(h) > HostnameWidth
    THEN SubSeq(h, 1, HostnameWidth - 3) \o <<DotChar, DotChar, DotChar>>
    ELSE h

\* One table row: the address, the hostname cut to width, the status with
\* the local machine marked.
Row(h, local) ==
    [kind |-> "row", IP |-> h.IP, Hostname |-> Truncate(h.Hostname),
     Status |-> IF h.IP = local THEN "Online (You)" ELSE h.Status]

\* Addresses a scan can have found alive.
ShownSamples ==
    << <<192, 168, 1, 10>>, <<192, 168, 1, 9>>, <<192, 168, 1, 100>>,
       <<10, 0, 0, 2>> >>

ShownPool ==
    {ShownSamples[k] : k \in 1..(IF MaxShown < Len(ShownSamples)
                                 THEN MaxShown ELSE Len(ShownSamples))}

\* A hostname of n letters.
NameOfLen(n) == [i \in 1..n |-> 97 + (i % 26)]

\* Resolved names: the sentinel "-" and a name longer than the column.
ShownNames == {<<45>>, NameOfLen(HostnameWidth + 3)}

\* The address lists a scan can collect: distinct addresses in any order.
CollectedLists ==
    {a \in UNION {[1..n -> ShownPool] : n \in 0..MaxShown} :
        \A i, j \in DOMAIN a : i # j => a[i] # a[j]}

DispIdle ==
    /\ dispHosts = <<>>
    /\ dispLocalIP = <<>>
    /\ dispPc = "idle"
    /\ dispOut = <<>>
    /\ collected = <<>>

\* displayResults(hosts, localIP) is entered.
DispInit ==
    /\ collected \in CollectedLists
    /\ \E names \in [DOMAIN collected -> ShownNames] :
          dispHosts = [i \in DOMAIN collected |->
                          Host(DottedQuad(collected[i]), names[i])]
    /\ dispLocalIP \in {DottedQuad(a) : a \in ShownPool \cup {<<192, 168, 1, 1>>}}
    /\ dispPc = "called"
    /\ dispOut = <<>>

\* if len(hosts) == 0 { fmt.Println("No hosts found on the network."); return }
DisplayNone ==
    /\ dispPc = "called"
    /\ Len(dispHosts) = 0
    /\ dispOut' = <<[kind |-> "nohosts"]>>
    /\ dispPc' = "shown"
    /\ UNCHANGED <<dispHosts, dispLocalIP, collected, notDisp>>

\* Sort, print the header and the rule, one row per host, the count line.
DisplayTable ==
    /\ dispPc = "called"
    /\ Len(dispHosts) # 0
    /\ dispHosts' = SortHosts(dispHosts)
    /\ dispOut' = <<[kind |-> "header"], [kind |-> "rule"]>> \o
                  [i \in 1..Len(dispHosts) |->
                      Row(SortHosts(dispHosts)[i], dispLocalIP)] \o
                  <<[kind |-> "found", n |-> Len(dispHosts)]>>
    /\ dispPc' = "shown"
    /\ UNCHANGED <<dispLocalIP, collected, notDisp>>

DispNext ==
    \/ DisplayNone
    \/ DisplayTable

(***************************************************************************)
(* tcpPing                                                                 *)
(***************************************************************************)
\* The words failure descriptions are made of; "timeout" stands for every
\* word the classification does not look for.
Words == {"refused", "no", "route", "network", "is", "unreachable", "timeout"}

\* err.Error() of a failed dial: any non-empty text of up to MaxWords words.
Descriptions == UNION {[1..n -> Words] : n \in 1..MaxWords}

RECURSIVE Contains(_, _)
\* strings.Contains(s, sub)
Contains(str, sub) ==
    IF Len(str) < Len(sub) THEN FALSE
    ELSE IF SubSeq(str, 1, Len(sub)) = sub THEN TRUE
    ELSE Contains(Tail(str), sub)

\* A classification that looks for "no route" before "refused".
ClassifyRouteFirst(desc) ==
    IF Contains(desc, <<"no", "route">>) THEN "no route to host"
    ELSE IF Contains(desc, <<"refused">>) THEN "connection refused"
    ELSE IF Contains(desc, <<"network", "is", "unreachable">>)
         THEN "network unreachable"
    ELSE "timeout"

\* errMsg := "timeout"; if Contains(.., "refused") ... else if
\* Contains(.., "no route") ... else if Contains(.., "network is unreachable")
Classify(desc) ==
    IF Contains(desc, <<"refused">>) THEN "connection refused"
    ELSE IF Contains(desc, <<"no", "route">>) THEN "no route to host"
    ELSE IF Contains(desc, <<"network", "is", "unreachable">>)
         THEN "network unreachable"
    ELSE "timeout"

\* The zero PingResult.
NoResult == [Success |-> FALSE, Duration |-> 0, Error |-> ""]

PingIdle ==
    /\ pingPc = "idle"
    /\ dialErr = <<>>
    /\ dialDur = 0
    /\ connOpen = FALSE
    /\ pingResult = NoResult

\* tcpPing(host, port, timeout) is entered and dials.
PingInit ==
    /\ pingPc = "dial"
    /\ dialErr = <<>>
    /\ dialDur = 0
    /\ connOpen = FALSE
    /\ pingResult = NoResult

\* conn, err := net.DialTimeout(...) with err != nil
DialFails ==
    /\ pingPc = "dial"
    /\ \E d \in Descriptions : dialErr' = d
    /\ pingPc' = "failed"
    /\ UNCHANGED <<dialDur, connOpen, pingResult, notPing>>

\* conn, err := net.DialTimeout(...) with err == nil; duration := Since(start)
DialSucceeds ==
    /\ pingPc = "dial"
    /\ \E t \in Durations : dialDur' = t
    /\ connOpen' = TRUE
    /\ pingPc' = "connected"
    /\ UNCHANGED <<dialErr, pingResult, notPing>>

\* return PingResult{Success: false, Error: errMsg}
ReturnFailure ==
    /\ pingPc = "failed"
    /\ pingResult' = [Success |-> FALSE, Duration |-> 0,
                      Error |-> Classify(dialErr)]
    /\ pingPc' = "returned"
    /\ UNCHANGED <<dialErr, dialDur, connOpen, notPing>>

\* conn.Close(); return PingResult{Success: true, Duration: duration}
CloseAndReturn ==
    /\ pingPc = "connected"
    /\ connOpen' = FALSE
    /\ pingResult' = [Success |-> TRUE, Duration |-> dialDur, Error |-> ""]
    /\ pingPc' = "returned"
    /\ UNCHANGED <<dialErr, dialDur, notPing>>

PingNext ==
    \/ DialFails
    \/ DialSucceeds
    \/ ReturnFailure
    \/ CloseAndReturn

(***************************************************************************)
(* Specifications                                                          *)
(***************************************************************************)
ScanInit == ScanStart /\ AliveIdle /\ OutIdle /\ RangeIdle /\ DispIdle /\ PingIdle

SpecScan == ScanInit /\ [][ScanNext]_vars

\* The Go scheduler runs every goroutine that can take a step; probes and
\* lookups return within their timeouts.
SpecScanFair ==
    /\ SpecScan
    /\ WF_vars(ScanMainStep)
    /\ \A w \in Workers : WF_vars(WorkerStep(w))

AliveStartInit == ScanIdle /\ AliveInit /\ OutIdle /\ RangeIdle /\ DispIdle /\ PingIdle

SpecAlive == AliveStartInit /\ [][AliveNext]_vars

\* The scheduler runs the caller and the port goroutines; every dial ends
\* within the dialer's timeout or when ctx is done.
SpecAliveFair ==
    /\ SpecAlive
    /\ WF_vars(AliveCallerStep)
    /\ WF_vars(PortReport)

OutStartInit == ScanIdle /\ AliveIdle /\ OutInit /\ RangeIdle /\ DispIdle /\ PingIdle

SpecOut == OutStartInit /\ [][OutNext]_vars

\* The goroutine that runs RunOut keeps being scheduled: a connect attempt
\* ends within its timeout and the interval timer fires.
SpecOutFair == SpecOut /\ WF_vars(OutStep)

RangeStartInit == ScanIdle /\ AliveIdle /\ OutIdle /\ RangeInit /\ DispIdle /\ PingIdle

SpecRange == RangeStartInit /\ [][RangeNext]_vars

DispStartInit ==
    ScanIdle /\ AliveIdle /\ OutIdle /\ RangeIdle /\ DispInit /\ PingIdle

SpecDisplay == DispStartInit /\ [][DispNext]_vars

PingStartInit ==
    ScanIdle /\ AliveIdle /\ OutIdle /\ RangeIdle /\ DispIdle /\ PingInit

SpecPing == PingStartInit /\ [][PingNext]_vars

(***************************************************************************)
(* Claims about scanNetwork, checked under SpecScan                        *)
(***************************************************************************)
\* C1: scanNetwork returns only after every address of the input list has
\* been attempted by a liveness probe, for every value of the -w flag.
ScanReturnsAfterAllProbed ==
    scanPc = "returned" => \A a \in SeqToSet(ips) : probes[a] >= 1

\* C2: every address is received from the queue by at most one worker and
\* probed at most once (never twice, never again after a negative probe); an
\* address still queued has been taken by nobody; and when scanNetwork
\* returns with at least one worker every address was taken by exactly one
\* worker and probed exactly once.
EachAddressProbedOnce ==
    \A a \in Addresses :
        /\ probes[a] <= 1
        /\ Cardinality(taken[a]) <= 1
        /\ probes[a] = 1 => Cardinality(taken[a]) = 1
        /\ a \in SeqToSet(ipChan) => taken[a] = {} /\ probes[a] = 0
        /\ (scanPc = "returned" /\ workers >= 1 /\ a \in SeqToSet(ips)) =>
               probes[a] = 1 /\ Cardinality(taken[a]) = 1

\* C2 witness: a finished scan in which two workers each took an address and
\* some probe was negative.
EachAddressProbedOnceWitness ==
    /\ scanPc = "returned"
    /\ Len(ips) >= 2
    /\ taken[1] = {1}
    /\ taken[2] = {2}
    /\ probeAlive # SeqToSet(ips)

\* C3: when scanNetwork returns with W >= 1 workers, the returned collection
\* holds exactly one record for each address whose probe reported alive, none
\* for any other address, and each record is the one its worker built.
HostsMatchAliveProbes ==
    (scanPc = "returned" /\ workers >= 1) =>
        /\ Len(result) = Cardinality(probeAlive)
        /\ {result[i].IP : i \in 1..Len(result)} = probeAlive
        /\ \A i \in 1..Len(result) :
               result[i] = Host(result[i].IP, resolved[result[i].IP])

\* C3 witness: a finished scan whose first two records were appended by
\* different workers, with some address found not alive.
HostsMatchAliveProbesWitness ==
    /\ scanPc = "returned"
    /\ workers = 2
    /\ Len(result) >= 2
    /\ taken[result[1].IP] # taken[result[2].IP]
    /\ probeAlive # SeqToSet(ips)

(***************************************************************************)
(* Claims about isHostAlive, checked under SpecAlive                       *)
(***************************************************************************)
\* C4: isHostAlive returns alive whenever some port attempt yielded a
\* conclusive positive (connected or refused) within the timeout, whatever
\* order the collecting loop observes the results and the expiry in.
AliveIfAnyPositive ==
    (alivePc = "returned" /\ nConnected + nRefused >= 1) =>
        aliveResult = "alive"

\* C5: isHostAlive returns not-alive only when all 10 port attempts have
\* reported inconclusive or the overall timeout has elapsed, and returns
\* alive only when some port attempt has reported a conclusive positive.
AliveVerdictJustified ==
    /\ aliveResult = "dead" => (nOther = NumPorts \/ deadline)
    /\ aliveResult = "alive" => nConnected + nRefused >= 1

\* C5 witness: not-alive returned before the timeout, after all 10 ports
\* reported inconclusive.
AliveVerdictJustifiedWitness ==
    /\ aliveResult = "dead"
    /\ ~deadline
    /\ successCount = NumPorts
    /\ nOther = NumPorts

(***************************************************************************)
(* Claims about RunOut, checked under SpecOut and SpecOutFair              *)
(***************************************************************************)
\* The lines of stdout of one kind.
LinesOfKind(k) == SelectSeq(stdout, LAMBDA l : l.kind = k)

\* C6: Sent = Received + Lost after every completed iteration and when the
\* summary is printed; Sent is the number of completed attempts, and the
\* summary shows the Sent and Received of that moment.
StatsBalanced ==
    /\ stats.Sent = stats.Received + stats.Lost
    /\ stats.Sent = (IF outPc = "ping" THEN seq - 1 ELSE seq)
    /\ \A i \in 1..Len(stdout) :
          stdout[i].kind = "summary" =>
              /\ stdout[i].sent = stats.Sent
              /\ stdout[i].received = stats.Received
              /\ stdout[i].sent = stdout[i].received + stats.Lost

\* C6 witness: the summary printed after successes, failures and a signal.
StatsBalancedWitness ==
    /\ outPc = "exit"
    /\ printed = 1
    /\ stats.Received >= 1
    /\ stats.Lost >= 1
    /\ sigCount >= 1

\* C7: with -c N, N > 0, and no signal the loop never starts an (N+1)-th
\* attempt, waits after every attempt but the N-th, and exits with Sent = N;
\* when every attempt succeeded and -q is off the output is the header, N
\* "Connected" lines seq=1..N, then the summary with N sent, N received and
\* 0.0% loss.
CountLimitsAttempts ==
    (count > 0 /\ sigCount = 0) =>
        /\ seq <= count
        /\ waits = (IF stats.Sent < count THEN stats.Sent ELSE count - 1)
        /\ (outPc = "exit" /\ printed = 1) =>
              stats.Sent = count /\ seq = count
        /\ (outPc = "exit" /\ printed = 1 /\ ~quiet /\ stats.Lost = 0) =>
              /\ Len(stdout) = count + 4
              /\ stdout[1] = HeaderLine
              /\ \A i \in 1..count :
                    stdout[i + 1].kind = "connected" /\ stdout[i + 1].seq = i
              /\ stdout[count + 2] = BlankLine
              /\ stdout[count + 3] =
                    [kind |-> "summary", sent |-> count, received |-> count,
                     loss |-> 0]
              /\ stdout[count + 4].kind = "rtt"

\* C7 witness: -c 3 against a target that always answers, not quiet, no
\* signal, loop finished.
CountLimitsAttemptsWitness ==
    /\ outPc = "exit"
    /\ printed = 1
    /\ count = 3
    /\ sigCount = 0
    /\ ~quiet
    /\ stats.Lost = 0
    /\ Len(LinesOfKind("connected")) = 3

\* C8: once a signal is delivered during the inter-probe wait, or is pending
\* at the start of an iteration, no further attempt starts and no further
\* wait is entered: seq and the statistics stay what they were at delivery.
CancelBeforeAttemptStopsLoop ==
    sigAt.pc \in {"wait", "loop", "select"} =>
        /\ outPc # "ping"
        /\ seq = sigAt.seq
        /\ stats = sigAt.stats
        /\ waits = sigAt.waits

\* C8 witness: an unbounded loop that was signalled in the wait after two
\* attempts and has exited with Sent = 2.
CancelBeforeAttemptStopsLoopWitness ==
    /\ outPc = "exit"
    /\ count = 0
    /\ sigAt.pc = "wait"
    /\ sigAt.stats.Sent = 2
    /\ stats.Sent = 2
    /\ printed = 1

\* C9: a signal delivered while a connect attempt is in flight does not
\* interrupt it: the attempt ends with its own outcome, is counted in Sent
\* and in exactly one of Received and Lost, and no attempt starts after it.
InFlightAttemptCompletes ==
    sigAt.pc = "ping" =>
        /\ seq = sigAt.seq
        /\ IF outPc = "ping"
           THEN stats = sigAt.stats
           ELSE /\ stats.Sent = sigAt.stats.Sent + 1
                /\ \/ /\ stats.Received = sigAt.stats.Received + 1
                      /\ stats.Lost = sigAt.stats.Lost
                   \/ /\ stats.Received = sigAt.stats.Received
                      /\ stats.Lost = sigAt.stats.Lost + 1

\* C9 witness: an unbounded loop signalled during its second attempt, which
\* failed and was counted, has exited.
InFlightAttemptCompletesWitness ==
    /\ outPc = "exit"
    /\ count = 0
    /\ sigAt.pc = "ping"
    /\ sigAt.stats.Sent = 1
    /\ stats.Sent = 2
    /\ stats.Lost = sigAt.stats.Lost + 1

\* The loop was entered: the PONG header is the first line of output.
LoopStarted == Len(stdout) > 0 /\ stdout[1] = HeaderLine

\* C10: once the loop has started, leaving it (done set by a signal seen
\* before an attempt, by a signal seen in the wait, or by the count limit)
\* leads to the report being printed, exactly once, and the process ends
\* with status 0.
ReportOnEveryLoopExit ==
    /\ [](printed <= 1)
    /\ []((outPc = "exit" /\ LoopStarted) =>
             /\ printed = 1
             /\ exitStatus = 0
             /\ Len(LinesOfKind("summary")) = 1)
    /\ ((InLoop /\ done) ~> (outPc = "exit" /\ printed = 1 /\ exitStatus = 0))

\* C10 witness: the loop was cancelled before its first attempt and the
\* report was printed with status 0.
ReportOnEveryLoopExitWitness ==
    /\ outPc = "exit"
    /\ LoopStarted
    /\ sigCount >= 1
    /\ stats.Sent = 0
    /\ printed = 1
    /\ exitStatus = 0

\* C15: the report prints the rtt line if and only if Received > 0; with
\* Received = 0 there is no rtt line, and no rtt line ever shows the initial
\* MinTime sentinel.
RttLineIffReceived ==
    /\ Len(LinesOfKind("rtt")) =
          (IF printed = 1 /\ stats.Received > 0 THEN 1 ELSE 0)
    /\ \A i \in 1..Len(LinesOfKind("rtt")) :
          /\ LinesOfKind("rtt")[i].min # MaxDurationValue
          /\ LinesOfKind("rtt")[i].min \in Durations
          /\ LinesOfKind("rtt")[i].min <= LinesOfKind("rtt")[i].max

\* C15 witness: every attempt failed, the report is out and has no rtt line.
RttLineIffReceivedWitness ==
    /\ outPc = "exit"
    /\ printed = 1
    /\ stats.Sent = MaxAttempts
    /\ stats.Received = 0
    /\ stats.MinTime = MaxDurationValue
    /\ Len(LinesOfKind("summary")) = 1
    /\ Len(LinesOfKind("rtt")) = 0

\* a = b * 100 to the nearest tenth, a in tenths of a percent and b = n / d
NearestTenth(a, n, d) ==
    /\ 2 * (a * d - n * 1000) <= d
    /\ 2 * (n * 1000 - a * d) <= d

\* C16: when the loop exits with Sent = 0 the summary is still printed and
\* reports a loss of 0; with Sent > 0 it reports Lost/Sent*100.
LossReported ==
    (outPc = "exit" /\ printed = 1) =>
        /\ Len(LinesOfKind("summary")) = 1
        /\ LinesOfKind("summary")[1].sent = stats.Sent
        /\ stats.Sent = 0 => LinesOfKind("summary")[1].loss = 0
        /\ stats.Sent > 0 =>
              NearestTenth(LinesOfKind("summary")[1].loss, stats.Lost, stats.Sent)

\* C16 witness: a signal arrived before the first attempt; the report shows
\* 0 sent and 0.0% loss.
LossReportedWitness ==
    /\ outPc = "exit"
    /\ printed = 1
    /\ sigAt.pc \in {"loop", "select"}
    /\ stats.Sent = 0
    /\ LinesOfKind("summary") = <<[kind |-> "summary", sent |-> 0,
                                    received |-> 0, loss |-> 0]>>

\* C18: with W >= 1 workers scanNetwork eventually returns: the queue is
\* drained, every started worker has exited, none is left waiting for the
\* queue or the lock, and the wait for the workers has ended.
ScanEventuallyReturns ==
    (scanPc = "fill" /\ workers >= 1) ~>
        (/\ scanPc = "returned"
         /\ ipChan = <<>>
         /\ wg = 0
         /\ hostsMu = 0
         /\ \A w \in 1..workers : wpc[w] = "exited")

\* C18 witness: two workers ran, one of them appended a record, and the scan
\* returned with both exited.
ScanEventuallyReturnsWitness ==
    /\ scanPc = "returned"
    /\ workers = MaxWorkers
    /\ \A w \in 1..workers : wpc[w] = "exited"
    /\ Len(result) >= 1
    /\ probeAlive # SeqToSet(ips)

\* C19: every call to isHostAlive returns alive or not alive, and all of
\* its port goroutines terminate, also after the caller returned early: a
\* goroutine that still has to send always finds room in the channel.
AliveResolvesPortsEnd ==
    /\ [](Dialing > 0 => Len(resultChan) < NumPorts)
    /\ (alivePc = "launch" /\ launched = 0) ~>
          (/\ alivePc = "returned"
           /\ aliveResult \in {"alive", "dead"}
           /\ launched = NumPorts
           /\ Dialing = 0)

\* C19 witness: the caller returned on the first result and the nine
\* abandoned goroutines have all sent theirs and ended.
AliveResolvesPortsEndWitness ==
    /\ alivePc = "returned"
    /\ aliveResult = "alive"
    /\ idx = 0
    /\ Dialing = 0
    /\ Len(resultChan) = NumPorts - 1

\* The worker is between hostsMu.Lock() and hostsMu.Unlock().
InAppend(w) == wpc[w] \in {"append", "store", "unlock"}

\* C20: the result lock is held by at most one worker, and only across the
\* append: a worker is between Lock and Unlock exactly when it is the
\* holder, no worker holds the lock inside a probe or a lookup, and every
\* change of the Host collection is the holder appending its own record.
LockGuardsAppend ==
    /\ [](\A w \in Workers : InAppend(w) <=> hostsMu = w)
    /\ [](\A w, v \in Workers : (InAppend(w) /\ InAppend(v)) => w = v)
    /\ [][hosts' # hosts =>
            /\ hostsMu \in Workers
            /\ wpc[hostsMu] = "store"
            /\ hostsMu' = hostsMu
            /\ hosts' = Append(hosts, Host(wip[hostsMu], whost[hostsMu]))]_vars

\* C20 witness: worker 1 holds the lock and is about to store its record
\* after an earlier append, while worker 2 waits in Lock().
LockGuardsAppendWitness ==
    /\ hostsMu = 1
    /\ wpc[1] = "store"
    /\ wpc[2] = "lock"
    /\ Len(hosts) >= 1

\* The durations of the successful attempts so far.
TimesSeen == {d \in Durations : rtts[d] > 0}

RECURSIVE SumTimesUpTo(_)
\* The sum of the successful attempts' durations that are at most n.
SumTimesUpTo(n) ==
    IF n = 0 THEN 0 ELSE n * rtts[n] + SumTimesUpTo(n - 1)

\* C21: whenever Received > 0, MinTime is the smallest and MaxTime the
\* largest duration of the successful attempts so far, TotalTime is their
\* sum and MinTime <= TotalTime / Received <= MaxTime; a failed attempt
\* leaves MinTime, MaxTime and TotalTime unchanged.
TimesTrackSuccesses ==
    /\ [](stats.Received > 0 =>
            /\ TimesSeen # {}
            /\ \A d \in TimesSeen : stats.MinTime <= d /\ d <= stats.MaxTime
            /\ stats.MinTime \in TimesSeen
            /\ stats.MaxTime \in TimesSeen
            /\ stats.TotalTime = SumTimesUpTo(MaxDuration)
            /\ stats.MinTime <= stats.TotalTime \div stats.Received
            /\ stats.TotalTime \div stats.Received <= stats.MaxTime
            /\ stats.MinTime * stats.Received <= stats.TotalTime
            /\ stats.TotalTime <= stats.MaxTime * stats.Received)
    /\ [][stats'.Lost # stats.Lost =>
            /\ stats'.MinTime = stats.MinTime
            /\ stats'.MaxTime = stats.MaxTime
            /\ stats'.TotalTime = stats.TotalTime
            /\ stats'.Received = stats.Received]_vars

\* C21 witness: a short and a long success and one failure have been counted.
TimesTrackSuccessesWitness ==
    /\ stats.Received = 2
    /\ stats.Lost = 1
    /\ rtts[1] = 1
    /\ rtts[MaxDuration] = 1
    /\ stats.MinTime = 1
    /\ stats.MaxTime = MaxDuration
    /\ stats.TotalTime = 1 + MaxDuration

(***************************************************************************)
(* Claims about generateIPRange, checked under SpecRange                   *)
(***************************************************************************)
\* Address a plus i, added octet by octet with carry (modulo 2^32).
AddOctets(a, i) ==
    LET s4 == a[4] + (i % 256)
        s3 == a[3] + ((i \div 256) % 256) + (s4 \div 256)
        s2 == a[2] + ((i \div 65536) % 256) + (s3 \div 256)
        s1 == a[1] + (i \div 16777216) + (s2 \div 256)
    IN  <<s1 % 256, s2 % 256, s3 % 256, s4 % 256>>

\* The broadcast address of the /n prefix that holds ip: all host bits set.
BroadcastIP(ip, n) ==
    [k \in 1..4 |-> MaskIP(ip, n)[k] + (2 ^ (8 - MaskBits(n, k))) - 1]

\* Neither address a nor address b is in the generated list.
Excludes(a, b) == SelectSeq(genIps, LAMBDA x : x = a \/ x = b) = <<>>

\* The generated list is base+1, base+2, ... in this order: ascending, with
\* no gap and no duplicate.
Consecutive(base) ==
    genIps = [i \in 1..Len(genIps) |-> AddOctets(base, i)]

MinInt(a, b) == IF a < b THEN a ELSE b

\* C11: for hostBits >= 4 the list has 2^min(hostBits,16) - 2 addresses,
\* network+1, network+2, ... with no gap or duplicate; for a /24 these are
\* the 254 addresses x.y.z.1 .. x.y.z.254; the network and the broadcast
\* address of the prefix are not in the list.
RangeIsWholePrefix ==
    (rangePc = "generated" /\ HostBitsOf(ones) >= 4) =>
        /\ Len(genIps) = (2 ^ MinInt(HostBitsOf(ones), 16)) - 2
        /\ Consecutive(MaskIP(ifaceIP, ones))
        /\ Excludes(MaskIP(ifaceIP, ones), BroadcastIP(ifaceIP, ones))
        /\ ones = 24 =>
              /\ Len(genIps) = 254
              /\ genIps[1] = <<ifaceIP[1], ifaceIP[2], ifaceIP[3], 1>>
              /\ genIps[254] = <<ifaceIP[1], ifaceIP[2], ifaceIP[3], 254>>

\* C11 witness: a /12 prefix, clamped to 65534 addresses, has been generated.
RangeIsWholePrefixWitness ==
    /\ rangePc = "generated"
    /\ ones = 12
    /\ Len(genIps) = 65534
    /\ genIps[65534] = <<netIP[1], netIP[2], 255, 254>>

\* C12 as stated: for hostBits < 4 the substituted range has 24 host bits
\* (2^24 - 2 addresses, or 2^16 - 2 once the /16 limit applies), starting
\* after x.y.z.0.
SmallSubnetGets24HostBits ==
    (rangePc = "generated" /\ HostBitsOf(ones) < 4) =>
        /\ Len(genIps) \in {(2 ^ 24) - 2, (2 ^ 16) - 2}
        /\ Consecutive(<<ifaceIP[1], ifaceIP[2], ifaceIP[3], 0>>)

\* C12 amended: for hostBits < 4 the substituted range is the enclosing /24,
\* 8 host bits: the 254 addresses x.y.z.1 .. x.y.z.254.
SmallSubnetGetsSlash24 ==
    (rangePc = "generated" /\ HostBitsOf(ones) < 4) =>
        /\ Len(genIps) = 254
        /\ genIps = [i \in 1..254 |->
                        <<ifaceIP[1], ifaceIP[2], ifaceIP[3], i>>]

\* C12 witness: a /30 whose network address is not on a /24 boundary.
SmallSubnetGetsSlash24Witness ==
    /\ rangePc = "generated"
    /\ ones = 30
    /\ netIP[4] # 0
    /\ genIps[1] = <<netIP[1], netIP[2], netIP[3], 1>>

\* C13 as stated: for every prefix length the list has between 254 and 65534
\* entries and holds neither the network nor the broadcast address of the
\* interface's prefix.
RangeSizeAtLeast254 ==
    rangePc = "generated" =>
        /\ Len(genIps) >= 254
        /\ Len(genIps) <= 65534
        /\ Excludes(MaskIP(ifaceIP, ones), BroadcastIP(ifaceIP, ones))

\* C13 amended: for every prefix length the list has between 14 and 65534
\* entries (254 or more unless hostBits is 4..7); for hostBits >= 4 it holds
\* neither the network nor the broadcast address of the interface's prefix,
\* for hostBits < 4 neither x.y.z.0 nor x.y.z.255.
RangeSizeBounded ==
    rangePc = "generated" =>
        /\ Len(genIps) >= 14
        /\ Len(genIps) <= 65534
        /\ HostBitsOf(ones) \notin 4..7 => Len(genIps) >= 254
        /\ IF HostBitsOf(ones) >= 4
           THEN Excludes(MaskIP(ifaceIP, ones), BroadcastIP(ifaceIP, ones))
           ELSE Excludes(<<ifaceIP[1], ifaceIP[2], ifaceIP[3], 0>>,
                         <<ifaceIP[1], ifaceIP[2], ifaceIP[3], 255>>)

\* C13 witness: a /28 has been generated and gives 14 addresses.
RangeSizeBoundedWitness ==
    /\ rangePc = "generated"
    /\ ones = 28
    /\ Len(genIps) = 14

\* C22: for every interface address and mask the generated list contains
\* the local machine's own address, whatever the prefix length.
LocalAddressInRange ==
    rangePc = "generated" =>
        SelectSeq(genIps, LAMBDA x : x = localIP) # <<>>

(***************************************************************************)
(* Claims about displayResults, checked under SpecDisplay                  *)
(***************************************************************************)
\* The rows of the printed table, in print order.
Rows == SelectSeq(dispOut, LAMBDA l : l.kind = "row")

\* The collected address that a printed address string stands for.
AddrOf(str) == CHOOSE a \in ShownPool : DottedQuad(a) = str

\* a <= b as 32-bit numbers: the octets compared from the most significant.
AddrLeq(a, b) ==
    \/ a[1] < b[1]
    \/ a[1] = b[1] /\ a[2] < b[2]
    \/ a[1] = b[1] /\ a[2] = b[2] /\ a[3] < b[3]
    \/ a[1] = b[1] /\ a[2] = b[2] /\ a[3] = b[3] /\ a[4] <= b[4]

\* C14: the printed rows are a permutation of the collected records, ordered
\* ascending by the numeric value of the address whatever the order of
\* collection; "192.168.1.9" is printed before "192.168.1.10".
RowsSortedNumerically ==
    dispPc = "shown" =>
        /\ Len(Rows) = Len(collected)
        /\ {Rows[i].IP : i \in 1..Len(Rows)} =
              {DottedQuad(collected[i]) : i \in 1..Len(collected)}
        /\ \A i \in 1..(Len(Rows) - 1) :
              AddrLeq(AddrOf(Rows[i].IP), AddrOf(Rows[i + 1].IP))
        /\ \A i, j \in 1..Len(Rows) :
              (Rows[i].IP = DottedQuad(<<192, 168, 1, 9>>) /\
               Rows[j].IP = DottedQuad(<<192, 168, 1, 10>>)) => i < j

\* C14 witness: .100, .10 and .9 were collected in this order and the table
\* shows .9, .10, .100.
RowsSortedNumericallyWitness ==
    /\ dispPc = "shown"
    /\ collected = << <<192, 168, 1, 100>>, <<192, 168, 1, 10>>,
                      <<192, 168, 1, 9>> >>
    /\ Len(Rows) = 3
    /\ Rows[1].IP = DottedQuad(<<192, 168, 1, 9>>)
    /\ Rows[2].IP = DottedQuad(<<192, 168, 1, 10>>)
    /\ Rows[3].IP = DottedQuad(<<192, 168, 1, 100>>)

(***************************************************************************)
(* Claims about tcpPing, checked under SpecPing                            *)
(***************************************************************************)
\* The phrase occurs somewhere in the description.
HasPhrase(d, p) ==
    \E i \in 1..Len(d) :
        /\ i + Len(p) - 1 <= Len(d)
        /\ \A k \in 1..Len(p) : d[i + k - 1] = p[k]

\* C17: a failed tcpPing returns Success = false and exactly one of the four
\* error classes, chosen in the order refused, no route, network is
\* unreachable, else timeout; a successful one returns Success = true, an
\* empty error class and a closed connection.
PingClassified ==
    pingPc = "returned" =>
        IF dialErr # <<>>
        THEN LET refused == HasPhrase(dialErr, <<"refused">>)
                 noRoute == HasPhrase(dialErr, <<"no", "route">>)
                 unreach == HasPhrase(dialErr, <<"network", "is", "unreachable">>)
             IN  /\ pingResult.Success = FALSE
                 /\ pingResult.Error \in {"timeout", "connection refused",
                                          "no route to host", "network unreachable"}
                 /\ pingResult.Error = "connection refused" <=> refused
                 /\ pingResult.Error = "no route to host" <=>
                        (~refused /\ noRoute)
                 /\ pingResult.Error = "network unreachable" <=>
                        (~refused /\ ~noRoute /\ unreach)
                 /\ pingResult.Error = "timeout" <=>
                        (~refused /\ ~noRoute /\ ~unreach)
        ELSE /\ pingResult.Success = TRUE
             /\ pingResult.Error = ""
             /\ pingResult.Duration = dialDur
             /\ connOpen = FALSE

\* C17 witness: a description with both "no route" and "refused" is classed
\* as connection refused.
PingClassifiedWitness ==
    /\ pingPc = "returned"
    /\ dialErr = <<"no", "route", "refused">>
    /\ pingResult = [Success |-> FALSE, Duration |-> 0,
                     Error |-> "connection refused"]

====
